---- MODULE Spec2Model ----
(***************************************************************************)
(* A model of AnimationControls (src/motion/utils/use-animation-controls.ts) *)
(* as a state machine: one action per public method, one action per        *)
(* promise job (a micro task) and one action for the frame scheduler       *)
(* completing a controlled animation.  A handler runs to its return in one *)
(* step; what it defers with Promise.then / Promise.all runs later, job by *)
(* job, in the first-in first-out order of the ECMAScript job queue.       *)
(***************************************************************************)
EXTENDS Integers, Sequences, FiniteSets, TLC

(* ------------------------------ bounds --------------------------------- *)

\* how many public-method calls a behaviour makes
MaxCalls == 3

\* the largest priority a caller passes to start()/clearOverride()
MaxPriority == 2

\* how many public-method calls a behaviour that renders the tree again makes
MaxRenderCalls == 4

\* how many public-method calls a behaviour of the fair specification makes
MaxLiveCalls == 2

(* ------------------------------ universe ------------------------------- *)

\* four controllers: a parent, the two controllers that may register with it,
\* and one that may register with the second of them
Root == "root"
KidA == "kidA"
KidB == "kidB"
KidC == "kidC"
Ctrl == {Root, KidA, KidB, KidC}
Kids == {KidA, KidB}

\* the property names, in the order Object.keys gives them for an object
\* that does not carry an order of its own (see Ordered and OrderedEnd)
KeyOrder == <<"x", "d">>

\* property values: numbers (as numerals), every other string being a CSS
\* keyword such as "none" and "block"; Absent is undefined: the value of a key
\* written as undefined ({ x: undefined }), and what reading a key that has no
\* entry gives
Numbers == {"0", "1", "2"}
Absent == "absent"

\* opts.priority === undefined
NoPriority == -1

\* a promise id that stands for "the callback returned undefined"
NoPromise == 0

\* the id of "no start() call" in the bookkeeping of who triggered what
NoCall == 0

(* ------------------------------ variants ------------------------------- *)

\* a target: a function from some of the keys to values
NoKeys == [k \in {} |-> Absent]
Target1(k, v) == [kk \in {k} |-> v]
Target2(k1, v1, k2, v2) == [kk \in {k1, k2} |-> IF kk = k1 THEN v1 ELSE v2]

\* "transitionEnd" missing from a variant
NoTarget == [none |-> TRUE]

\* "transition" missing from a variant
NoTransition == [none |-> TRUE]

Transition(before, after, delayCh, staggerCh, staggerDir) ==
    [beforeChildren |-> before, afterChildren |-> after,
     delayChildren |-> delayCh, staggerChildren |-> staggerCh,
     staggerDirection |-> staggerDir]

\* the transition { delay: delay }
DelayOnly(delay) ==
    [beforeChildren |-> FALSE, afterChildren |-> FALSE, delayChildren |-> 0,
     staggerChildren |-> 0, staggerDirection |-> 0, delay |-> delay]

\* a declared variant: the target keys, plus optional transition and transitionEnd
Variant(target, transition, transitionEnd) ==
    [target |-> target, transition |-> transition, transitionEnd |-> transitionEnd]

\* the keys "transition" and "transitionEnd" of an object are not part of its
\* target
Reserved == {"transition", "transitionEnd"}

\* an object whose own keys are written, or were inserted, in another order
\* than KeyOrder: keys lists the own keys of the variant, "transition" and
\* "transitionEnd" among them where they do not come last, and endKeys the
\* keys of its transitionEnd
Ordered(variant, keys) ==
    [f \in DOMAIN variant \cup {"keys"} |-> IF f = "keys" THEN keys ELSE variant[f]]
OrderedEnd(variant, endKeys) ==
    [f \in DOMAIN variant \cup {"endKeys"} |->
        IF f = "endKeys" THEN endKeys ELSE variant[f]]

\* Object.keys of an object that carries no order, and the own keys a variant
\* lists
Written(target) == SelectSeq(KeyOrder, LAMBDA key : key \in DOMAIN target)
Listed(variant) ==
    IF "keys" \in DOMAIN variant THEN variant.keys ELSE Written(variant.target)

\* Object.keys of the rest object of { transition, transitionEnd, ...target },
\* and of the transitionEnd object
TargetKeys(variant) == SelectSeq(Listed(variant), LAMBDA key : key \notin Reserved)
EndKeys(variant) ==
    IF "endKeys" \in DOMAIN variant THEN variant.endKeys
    ELSE Written(variant.transitionEnd)

\* this.variants[label] === undefined
NoVariant == [undefined |-> TRUE]

\* the three shapes of an AnimationDefinition, and the empty override slot
LabelDef(label) == [kind |-> "label", label |-> label]
LabelsDef(labels) == [kind |-> "labels", labels |-> labels]
TargetDef(variant) == [kind |-> "target", variant |-> variant]
Undefined == [kind |-> "undefined"]

isVariantLabels(v) == v.kind = "labels"
isLabel(v) == v.kind = "label"

\* AnimationOptions
Opts(priority, delay) == [priority |-> priority, delay |-> delay]

isAnimatable(value) == value \in Numbers

\* the result of resolveVariant for a missing variant
NothingResolved ==
    [target |-> NoTarget, transition |-> NoTransition, transitionEnd |-> NoTarget,
     keys |-> <<>>, endKeys |-> <<>>, calledWith |-> ""]

\* the props of a component, and the argument of a call without one
Props == {"p1", "p2"}
NoProps == "undefined"

\* a variant in function form: what it returns for each argument
Resolver(byProps) == [resolver |-> byProps]
isTargetResolver(p) == "resolver" \in DOMAIN p

\* const { transition, transitionEnd, ...target } = variant; keys is
\* Object.keys(target), endKeys is Object.keys(transitionEnd)
\* bookkeeping: calledWith is the argument the function form was invoked with
Destructured(variant, calledWith) ==
    [transition |-> variant.transition,
     transitionEnd |-> variant.transitionEnd,
     target |-> variant.target,
     keys |-> TargetKeys(variant),
     endKeys |-> EndKeys(variant),
     calledWith |-> calledWith]

resolveVariant(variant, props) ==
    IF variant = NoVariant
    THEN NothingResolved
    ELSE IF isTargetResolver(variant)
    THEN Destructured(variant.resolver[props], props)
    ELSE Destructured(variant, "")

(* ------------------------------- state --------------------------------- *)

VARIABLES
    values,        \* values[c]: the MotionValuesMap of c, key -> current value
    baseTarget,    \* baseTarget[c]: key -> resting value
    baseKeys,      \* baseKeys[c]: the keys of baseTarget[c], in insertion order
    defaultTransition, \* defaultTransition[c]: as last set, or NoTransition
    overrides,     \* overrides[c]: the array of definitions, slot i at index i+1
    isAnimating,   \* isAnimating[c]: the keys marked in the current pass
    children,      \* children[c]: the registered controllers, in insertion order
    hasChildren,   \* hasChildren[c]: this.children is a Set (possibly empty)
    variants,      \* variants[c]: label -> Variant
    props,         \* props[c]: the props last given to setProps
    scenario,      \* bookkeeping: which callers this behaviour has
    promises,      \* every promise made so far, by id
    queue,         \* the promise job queue
    calls,         \* bookkeeping: every start() made so far, by id
    effects,       \* bookkeeping: what the last step did, in order
    adds,          \* bookkeeping: adds[c]: the addChild calls since the last reset
    last,          \* bookkeeping: the last step
    ncalls         \* bookkeeping: the number of public-method calls made

vars == <<values, baseTarget, baseKeys, defaultTransition, overrides,
          isAnimating, children, hasChildren, variants, props, scenario, promises, queue, calls, effects, adds, last,
          ncalls>>

\* the part of the state a handler reads and writes, as one record
Machine ==
    [values |-> values, baseTarget |-> baseTarget, baseKeys |-> baseKeys,
     overrides |-> overrides,
     isAnimating |-> isAnimating, children |-> children,
     hasChildren |-> hasChildren, promises |-> promises, queue |-> queue,
     calls |-> calls, effects |-> <<>>, adds |-> adds, props |-> props]

Commit(m) ==
    /\ values' = m.values
    /\ baseTarget' = m.baseTarget
    /\ baseKeys' = m.baseKeys
    /\ overrides' = m.overrides
    /\ isAnimating' = m.isAnimating
    /\ children' = m.children
    /\ hasChildren' = m.hasChildren
    /\ promises' = m.promises
    /\ queue' = m.queue
    /\ calls' = m.calls
    /\ effects' = m.effects
    /\ adds' = m.adds
    /\ props' = m.props

\* a method's result: the machine after it and the promise it returns
Ret(m, p) == [m |-> m, p |-> p]

Log(m, e) == [m EXCEPT !.effects = Append(@, e)]

Put(f, k, v) == [kk \in DOMAIN f \cup {k} |-> IF kk = k THEN v ELSE f[kk]]

\* bookkeeping: the addChild(controls) calls made on a controller since its
\* registry was last emptied, whether a resetChildren() emptied it, and whether a
\* removeChild() was made since
Registered(kids) == [seq |-> kids, reset |-> FALSE, removed |-> FALSE]
AfterReset == [seq |-> <<>>, reset |-> TRUE, removed |-> FALSE]

(* ------------------------------ promises ------------------------------- *)

\* bookkeeping: who a piece of work is for: the start() call and the label
Ctx(call, label) == [call |-> call, label |-> label]
NoCtx == Ctx(NoCall, "")

\* bookkeeping: what a promise is the completion of
NoTag == [k |-> "none"]

\* a promise: pending or fulfilled, with the reactions waiting for it; a
\* Promise.all counts the elements it still waits for; the completion of a
\* controlled animation names its value, its target and whether it still runs
NewPromise(kind, state, tag) ==
    [kind |-> kind, state |-> state, reactions |-> <<>>, remaining |-> 0,
     c |-> "", key |-> "", to |-> "", active |-> FALSE, call |-> NoCall,
     pass |-> 0, tag |-> tag]

\* the jobs: a Promise.all element settling, a then-callback to run, a promise
\* adopting the promise its callback returned, and that adoption completing
AllElemJob(all, i) == [type |-> "allElem", p |-> all, index |-> i]
ThenJob(derived, cb) == [type |-> "then", p |-> derived, cb |-> cb]
AdoptJob(derived, q) == [type |-> "adopt", p |-> derived, q |-> q]
ResolveJob(derived) == [type |-> "resolve", p |-> derived]

Enqueue(m, job) == [m EXCEPT !.queue = Append(@, job)]

\* a promise is fulfilled: its reactions become jobs, in registration order
Fulfill(m, p) ==
    [m EXCEPT !.promises[p].state = "fulfilled",
              !.promises[p].reactions = <<>>,
              !.queue = @ \o m.promises[p].reactions]

\* q.then(reaction): a job at once when q is already fulfilled
React(m, q, reaction) ==
    IF m.promises[q].state = "fulfilled"
    THEN Enqueue(m, reaction)
    ELSE [m EXCEPT !.promises[q].reactions = Append(@, reaction)]

\* Promise.resolve()
PromiseResolve(m) ==
    Ret([m EXCEPT !.promises = Append(@, NewPromise("resolved", "fulfilled", NoTag))],
        Len(m.promises) + 1)

RECURSIVE ReactEach(_, _, _, _)
ReactEach(m, ps, i, all) ==
    IF i > Len(ps) THEN m
    ELSE ReactEach(React(m, ps[i], AllElemJob(all, i)), ps, i + 1, all)

\* Promise.all(ps): fulfilled at once for an empty list
PromiseAll(m, ps, tag) ==
    Ret(ReactEach([m EXCEPT !.promises =
                      Append(@, [NewPromise("all", IF Len(ps) = 0 THEN "fulfilled"
                                                   ELSE "pending", tag)
                                   EXCEPT !.remaining = Len(ps)])],
                  ps, 1, Len(m.promises) + 1),
        Len(m.promises) + 1)

\* p.then(cb)
PromiseThen(m, p, cb) ==
    Ret(React([m EXCEPT !.promises = Append(@, NewPromise("then", "pending", cb))],
              p, ThenJob(Len(m.promises) + 1, cb)),
        Len(m.promises) + 1)

(* --------------------------- the value primitive ----------------------- *)

\* styler(ref.current).get(key): what the rendered element shows for a key
\* the store does not track yet
DomValue(c, key) == IF key = "x" THEN "0" ELSE "block"

\* unitConversion(values, ref, target, transitionEnd): the targets of this
\* model carry no units, which is the case it returns both unchanged in
unitConversion(target, transitionEnd) ==
    [target |-> target, transitionEnd |-> transitionEnd]

StopAnimations(ps, c, key) ==
    [p \in DOMAIN ps |->
        IF ps[p].kind = "control" /\ ps[p].c = c /\ ps[p].key = key
        THEN [ps[p] EXCEPT !.active = FALSE]
        ELSE ps[p]]

\* value.control(action, options): the value's running animation is stopped,
\* a new one towards `to` starts; the promise returned is its completion
control(m, c, key, to, delay, priority, ctx, pass) ==
    Ret(Log([m EXCEPT !.promises =
                Append(StopAnimations(@, c, key),
                       [NewPromise("control", "pending", NoTag)
                          EXCEPT !.c = c, !.key = key, !.to = to,
                                 !.active = TRUE, !.call = ctx.call,
                                 !.pass = pass])],
            [op |-> "control", c |-> c, key |-> key, val |-> to,
             delay |-> delay, priority |-> priority, call |-> ctx.call,
             label |-> ctx.label]),
        Len(m.promises) + 1)

\* value.set(v), or values.set(key, motionValue(v)) for a key not tracked yet
set(m, c, key, v, ctx) ==
    Log([m EXCEPT !.values[c] = Put(@, key, v)],
        [op |-> IF key \in DOMAIN m.values[c] THEN "set" ELSE "create",
         c |-> c, key |-> key, val |-> v, call |-> ctx.call, label |-> ctx.label])

(* ----------------------------- the controller -------------------------- *)
(* A method takes the machine and returns the machine after it, with the   *)
(* promise it returns where it returns one.  An intermediate result is     *)
(* handed on as an argument of the operator that continues the method.     *)

\* overrides[i] of the JavaScript array: undefined past its end and in a hole
Slot(ov, i) == IF i + 1 \in DOMAIN ov THEN ov[i + 1] ELSE Undefined

\* this.baseTarget[key] = v: a new key comes last in Object.keys
setBaseTarget(m, c, key, v) ==
    [m EXCEPT !.baseTarget[c] = Put(@, key, v),
              !.baseKeys[c] = IF key \in DOMAIN m.baseTarget[c] THEN @
                              ELSE Append(@, key)]

\* setValues(target, isActive): returns the machine and the grown isActive set
\* (keys is Object.keys(target))
RECURSIVE setValuesFrom(_, _, _, _, _, _, _)
setValuesFrom(m, c, target, keys, isActive, ctx, i) ==
    IF i > Len(keys) THEN [m |-> m, isActive |-> isActive]
    ELSE IF keys[i] \in isActive
    THEN setValuesFrom(m, c, target, keys, isActive, ctx, i + 1)
    ELSE setValuesFrom(
            setBaseTarget(set(m, c, keys[i], target[keys[i]], ctx),
                          c, keys[i], target[keys[i]]),
            c, target, keys, isActive \cup {keys[i]}, ctx, i + 1)

setValues(m, c, target, keys, isActive, ctx) ==
    setValuesFrom(m, c, target, keys, isActive, ctx, 1)

\* (keys is Object.keys(target); the keys tracked before the call are filtered
\* out, and a key is not in a target twice)
RECURSIVE checkForNewValuesFrom(_, _, _, _, _)
checkForNewValuesFrom(m, c, keys, ctx, i) ==
    IF i > Len(keys) THEN m
    ELSE IF keys[i] \in DOMAIN m.values[c]
    THEN checkForNewValuesFrom(m, c, keys, ctx, i + 1)
    ELSE checkForNewValuesFrom(
            setBaseTarget(set(m, c, keys[i], DomValue(c, keys[i]), ctx),
                          c, keys[i], DomValue(c, keys[i])),
            c, keys, ctx, i + 1)

checkForNewValues(m, c, keys, ctx) ==
    checkForNewValuesFrom(m, c, keys, ctx, 1)

RECURSIVE getHighestPriorityFrom(_, _, _)
getHighestPriorityFrom(ov, i, highest) ==
    IF i >= Len(ov) THEN highest
    ELSE getHighestPriorityFrom(ov, i + 1,
                                IF Slot(ov, i) # Undefined THEN i ELSE highest)

getHighestPriority(ov) == getHighestPriorityFrom(ov, 0, 0)

RECURSIVE isHighestPriorityFrom(_, _)
isHighestPriorityFrom(ov, i) ==
    IF i >= Len(ov) THEN TRUE
    ELSE IF Slot(ov, i) # Undefined THEN FALSE
    ELSE isHighestPriorityFrom(ov, i + 1)

isHighestPriorityMutant(ov, priority) == isHighestPriorityFrom(ov, priority)
isHighestPriority(ov, priority) == isHighestPriorityFrom(ov, priority + 1)

\* this.overrides[priority] = definition: the array grows, with holes
setPriorityAnimation(m, c, definition, priority) ==
    [m EXCEPT !.overrides[c] =
        [i \in 1..(IF Len(@) > priority + 1 THEN Len(@) ELSE priority + 1) |->
            IF i = priority + 1 THEN definition ELSE Slot(@, i - 1)]]

RECURSIVE resetIsAnimatingEach(_, _, _)
RECURSIVE resetIsAnimating(_, _)
resetIsAnimatingEach(m, cs, i) ==
    IF i > Len(cs) THEN m
    ELSE resetIsAnimatingEach(resetIsAnimating(m, cs[i]), cs, i + 1)

\* (mutant: only the controller's own set is emptied)
resetIsAnimatingMutant(m, c) == [m EXCEPT !.isAnimating[c] = {}]
resetIsAnimating(m, c) ==
    IF m.hasChildren[c]
    THEN resetIsAnimatingEach([m EXCEPT !.isAnimating[c] = {}], m.children[c], 1)
    ELSE [m EXCEPT !.isAnimating[c] = {}]

\* the callbacks animate and animateVariant hand to then()
TransitionEndCb(c, transitionEnd, keys, ctx, priority, pass) ==
    [k |-> "transitionEnd", c |-> c, transitionEnd |-> transitionEnd,
     keys |-> keys, ctx |-> ctx, priority |-> priority, pass |-> pass]
GetAnimationsCb(c, variant, opts, ctx) ==
    [k |-> "getAnimations", c |-> c, variant |-> variant, opts |-> opts,
     ctx |-> ctx]
GetChildrenAnimationsCb(c, hasKids, label, s, priority, ctx) ==
    [k |-> "getChildrenAnimations", c |-> c, hasKids |-> hasKids,
     label |-> label, delayChildren |-> s.delayChildren,
     staggerChildren |-> s.staggerChildren,
     staggerDirection |-> s.staggerDirection, priority |-> priority,
     ctx |-> ctx]

\* { delay = 0, priority = 0 }: AnimationOptions = {}
NoOpts == Opts(NoPriority, 0)
PriorityOf(opts) == IF opts.priority = NoPriority THEN 0 ELSE opts.priority

\* p.then(cb) and Promise.all([p, q]) on the results of methods
ThenOf(r, cb) == PromiseThen(r.m, r.p, cb)
AllOf(a, tag) == PromiseAll(a.m, a.animations, tag)
Collect(r, acc) == [m |-> r.m, animations |-> Append(acc, r.p)]

\* one step of the reduce of animate: the key is recorded as the base target
\* at priority 0, then handed to control() or set, then marked as animating
\* if (!priority)
recordsBaseTargetMutant(priority) == priority # 0
recordsBaseTarget(priority) == priority = 0

animateKey(m, c, key, valueTarget, delay, priority, ctx, pass) ==
    IF isAnimatable(valueTarget)
    THEN control(IF recordsBaseTarget(priority)
                 THEN setBaseTarget(m, c, key, valueTarget) ELSE m,
                 c, key, valueTarget, delay, priority, ctx, pass)
    ELSE Ret(set(IF recordsBaseTarget(priority)
                 THEN setBaseTarget(m, c, key, valueTarget) ELSE m,
                 c, key, valueTarget, ctx),
             NoPromise)

markAnimating(r, c, key, acc) ==
    [m |-> [r.m EXCEPT !.isAnimating[c] = @ \cup {key}],
     animations |-> IF r.p = NoPromise THEN acc ELSE Append(acc, r.p)]

\* the reduce of animate over Object.keys(target): a key that is marked as
\* animating, has no value in the store or whose target value is undefined is
\* passed over; returns the machine and the completions of the animations it
\* started
RECURSIVE animateKeys(_, _, _, _, _, _, _, _, _)
animateKeys(a, c, target, keys, delay, priority, ctx, pass, i) ==
    IF i > Len(keys) THEN a
    ELSE IF \/ keys[i] \in a.m.isAnimating[c]
            \/ keys[i] \notin DOMAIN a.m.values[c]
            \/ target[keys[i]] = Absent
    THEN animateKeys(a, c, target, keys, delay, priority, ctx, pass, i + 1)
    ELSE animateKeys(
            markAnimating(animateKey(a.m, c, keys[i], target[keys[i]],
                                     delay, priority, ctx, pass),
                          c, keys[i], a.animations),
            c, target, keys, delay, priority, ctx, pass, i + 1)

\* Promise.all(animations).then(() => transitionEnd && setValues(transitionEnd))
whenAnimationsSettleMutant(a, cb) == ThenOf(PromiseResolve(a.m), cb)
whenAnimationsSettle(a, cb) == ThenOf(AllOf(a, NoTag), cb)

\* bookkeeping: an animate() invocation is named by the number of promises made
\* before it (it makes at least two)
\* if (!transition && this.defaultTransition) transition = this.defaultTransition
transitionOr(transition, default) ==
    IF transition = NoTransition THEN default ELSE transition

\* the delay of { delay, ...transition }
delayOf(delay, transition) ==
    IF "delay" \in DOMAIN transition THEN transition.delay ELSE delay

animateResolved(m, c, r, opts, ctx) ==
    IF r.target = NoTarget THEN PromiseResolve(m)
    ELSE whenAnimationsSettle(
            animateKeys(
                [m |-> checkForNewValues(
                          Log(m, [op |-> "animate", c |-> c, call |-> ctx.call,
                                  label |-> ctx.label,
                                  priority |-> PriorityOf(opts),
                                  calledWith |-> r.calledWith]),
                          c, r.keys, ctx),
                 animations |-> <<>>],
                c, unitConversion(r.target, r.transitionEnd).target, r.keys,
                delayOf(opts.delay, transitionOr(r.transition, defaultTransition[c])),
                PriorityOf(opts), ctx, Len(m.promises), 1),
            TransitionEndCb(c, unitConversion(r.target, r.transitionEnd).transitionEnd,
                            r.endKeys, ctx, PriorityOf(opts), Len(m.promises)))

animate(m, c, animationDefinition, opts, ctx) ==
    animateResolved(m, c, resolveVariant(animationDefinition, NoProps), opts, ctx)

\* (mutant: a label without a variant falls back to a variant the controller
\* declares)
VariantOfMutant(c, label) ==
    IF label \in DOMAIN variants[c] THEN variants[c][label]
    ELSE variants[c][CHOOSE other \in DOMAIN variants[c] : TRUE]
VariantOf(c, label) ==
    IF label \in DOMAIN variants[c] THEN variants[c][label] ELSE NoVariant

\* [...list].reverse()
Reverse(list) == [i \in 1..Len(list) |-> list[Len(list) + 1 - i]]

RECURSIVE animateVariant(_, _, _, _, _)
RECURSIVE RunCallback(_, _)

\* generateStaggerDuration(i), for the child at zero-based index i of n
\* (mutant: the longest stagger is taken as n * staggerChildren)
generateStaggerDurationMutant(i, n, staggerChildren, staggerDirection) ==
    IF staggerDirection = 1 THEN i * staggerChildren
    ELSE n * staggerChildren - i * staggerChildren
generateStaggerDuration(i, n, staggerChildren, staggerDirection) ==
    IF staggerDirection = 1 THEN i * staggerChildren
    ELSE (n - 1) * staggerChildren - i * staggerChildren

\* the forEach of animateChildren; i is the zero-based index of the child
RECURSIVE animateChildrenFrom(_, _, _, _, _, _, _, _, _)
animateChildrenFrom(a, cs, label, delayCh, staggerCh, staggerDir, priority, ctx, i) ==
    IF i >= Len(cs) THEN a
    ELSE animateChildrenFrom(
            Collect(animateVariant(
                        a.m, cs[i + 1], label,
                        Opts(priority,
                             delayCh + generateStaggerDuration(i, Len(cs), staggerCh,
                                                               staggerDir)),
                        ctx),
                    a.animations),
            cs, label, delayCh, staggerCh, staggerDir, priority, ctx, i + 1)

animateChildren(m, c, label, delayCh, staggerCh, staggerDir, priority, ctx) ==
    IF ~m.hasChildren[c] THEN PromiseResolve(m)
    ELSE AllOf(animateChildrenFrom([m |-> m, animations |-> <<>>], m.children[c],
                                   label, delayCh, staggerCh, staggerDir, priority,
                                   ctx, 0),
               [k |-> "animateChildren", c |-> c, ctx |-> ctx])

\* the flags animateVariant reads off the variant's own transition, and only
\* when the variant exists and this.children is set
ReadsTransition(m, c, variant) ==
    /\ variant # NoVariant
    /\ m.hasChildren[c]
    /\ resolveVariant(variant, NoProps).transition # NoTransition

SequencingOf(transition) ==
    [beforeChildren |-> transition.beforeChildren,
     afterChildren |-> transition.afterChildren,
     delayChildren |-> transition.delayChildren,
     staggerChildren |-> transition.staggerChildren,
     staggerDirection |-> IF transition.staggerDirection # 0
                          THEN transition.staggerDirection ELSE 1]

Sequencing(m, c, variant) ==
    IF ReadsTransition(m, c, variant)
    THEN SequencingOf(resolveVariant(variant, NoProps).transition)
    ELSE [beforeChildren |-> FALSE, afterChildren |-> FALSE, delayChildren |-> 0,
          staggerChildren |-> 0, staggerDirection |-> 1]

\* which of the two runs first: the own animation unless only afterChildren
\* is set
OwnFirstMutant(s) == ~s.beforeChildren
OwnFirst(s) == s.beforeChildren \/ ~s.afterChildren

\* Promise.all([getAnimations(), getChildrenAnimations()]), its first element
\* already made
BothOfMutant(first, second) == PromiseAll(second.m, <<first.p>>, NoTag)
BothOf(first, second) ==
    PromiseAll(second.m, <<first.p, second.p>>, NoTag)
AndThen(first, cb) == BothOf(first, RunCallback(first.m, cb))

\* first().then(last) when a flag is set, Promise.all([own, children]) otherwise
animateVariantRun(m, s, getAnimations, getChildrenAnimations) ==
    IF s.beforeChildren \/ s.afterChildren
    THEN ThenOf(RunCallback(m, IF OwnFirst(s) THEN getAnimations
                                ELSE getChildrenAnimations),
                IF OwnFirst(s) THEN getChildrenAnimations ELSE getAnimations)
    ELSE AndThen(RunCallback(m, getAnimations), getChildrenAnimations)

\* bookkeeping: the completion animateVariant returns is entered in `effects`,
\* with the controller's own values, base target and isAnimating set as the
\* method leaves them
animateVariantReturn(r, c, variantLabel, ctx) ==
    Ret(Log(r.m, [op |-> "completion", c |-> c, label |-> variantLabel,
                  call |-> ctx.call, p |-> r.p,
                  own |-> <<r.m.values[c], r.m.baseTarget[c], r.m.isAnimating[c]>>]),
        r.p)

animateVariant(m, c, variantLabel, opts, ctx) ==
    animateVariantReturn(
        animateVariantRun(
            Log(m, [op |-> "animateVariant", c |-> c, label |-> variantLabel,
                    delay |-> opts.delay, priority |-> PriorityOf(opts),
                    call |-> ctx.call,
                    own |-> <<m.values[c], m.baseTarget[c], m.isAnimating[c]>>]),
            Sequencing(m, c, VariantOf(c, variantLabel)),
            GetAnimationsCb(c, VariantOf(c, variantLabel), opts,
                            Ctx(ctx.call, variantLabel)),
            GetChildrenAnimationsCb(c, m.hasChildren[c], variantLabel,
                                    Sequencing(m, c, VariantOf(c, variantLabel)),
                                    PriorityOf(opts), Ctx(ctx.call, variantLabel))),
        c, variantLabel, ctx)

\* a callback runs: the machine after it, and the promise it returns (NoPromise
\* for undefined)
RunCallback(m, cb) ==
    CASE cb.k = "transitionEnd" ->
            IF cb.transitionEnd = NoTarget THEN Ret(m, NoPromise)
            ELSE Ret(setValues(Log(m, [op |-> "transitionEnd", c |-> cb.c,
                                       call |-> cb.ctx.call, pass |-> cb.pass,
                                       priority |-> cb.priority]),
                               cb.c, cb.transitionEnd, cb.keys, {}, cb.ctx).m,
                     NoPromise)
      [] cb.k = "getAnimations" ->
            IF cb.variant = NoVariant THEN PromiseResolve(m)
            ELSE animate(m, cb.c, cb.variant, cb.opts, cb.ctx)
      [] cb.k = "getChildrenAnimations" ->
            IF ~cb.hasKids THEN PromiseResolve(m)
            ELSE animateChildren(m, cb.c, cb.label, cb.delayChildren,
                                 cb.staggerChildren, cb.staggerDirection,
                                 cb.priority, cb.ctx)

RECURSIVE animateVariantLabelsFrom(_, _, _, _, _, _)
animateVariantLabelsFrom(a, c, reversed, opts, ctx, i) ==
    IF i > Len(reversed) THEN a
    ELSE animateVariantLabelsFrom(
            Collect(animateVariant(a.m, c, reversed[i], opts, ctx), a.animations),
            c, reversed, opts, ctx, i + 1)

animateVariantLabels(m, c, variantLabels, opts, ctx) ==
    AllOf(animateVariantLabelsFrom([m |-> m, animations |-> <<>>], c,
                                   Reverse(variantLabels), opts, ctx, 1),
          NoTag)

\* the check start() makes after recording the definition
\* (mutant: the priority is tested for truth, so priority 0 is never deferred)
startDefersMutant(ov, opts) ==
    opts.priority > 0 /\ ~isHighestPriority(ov, opts.priority)
startDefers(ov, opts) ==
    opts.priority # NoPriority /\ ~isHighestPriority(ov, opts.priority)

\* the dispatch of start() on the shape of the definition
startAnimate(m, c, definition, opts, call) ==
    IF isVariantLabels(definition)
    THEN animateVariantLabels(m, c, definition.labels, opts, Ctx(call, ""))
    ELSE IF isLabel(definition)
    THEN animateVariant(m, c, definition.label, opts, Ctx(call, ""))
    ELSE animate(m, c, definition.variant, opts, Ctx(call, ""))

\* bookkeeping: the ctx is entered in `calls` and in `effects`
startNoted(m, c, definition, opts, from, deferred) ==
    Log([m EXCEPT !.calls = Append(@,
            [c |-> c, definition |-> definition, opts |-> opts, from |-> from,
             deferred |-> deferred, ret |-> NoPromise])],
        [op |-> "start", c |-> c, call |-> Len(m.calls) + 1,
         definition |-> definition, priority |-> PriorityOf(opts),
         deferred |-> deferred])

startReturn(r, call) == Ret([r.m EXCEPT !.calls[call].ret = r.p], r.p)

\* (mutant: isAnimating is reset before the priority check)
startRecordedMutant(m, c, definition, opts, from) ==
    startReturn(
        IF startDefers(m.overrides[c], opts)
        THEN PromiseResolve(
                resetIsAnimating(startNoted(m, c, definition, opts, from, TRUE), c))
        ELSE startAnimate(
                resetIsAnimating(startNoted(m, c, definition, opts, from, FALSE), c),
                c, definition, opts, Len(m.calls) + 1),
        Len(m.calls) + 1)

startRecorded(m, c, definition, opts, from) ==
    startReturn(
        IF startDefers(m.overrides[c], opts)
        THEN PromiseResolve(startNoted(m, c, definition, opts, from, TRUE))
        ELSE startAnimate(
                resetIsAnimating(startNoted(m, c, definition, opts, from, FALSE), c),
                c, definition, opts, Len(m.calls) + 1),
        Len(m.calls) + 1)

start(m, c, definition, opts, from) ==
    startRecorded(setPriorityAnimation(m, c, definition, PriorityOf(opts)),
                  c, definition, opts, from)

\* an object held as a value: what apply() stores under "transitionEnd"
Object(target, keys) == [target |-> target, keys |-> keys]

\* animate(this.baseTarget): the base target read as a variant
BaseVariant(target, keys) ==
    [target |-> [key \in DOMAIN target \ Reserved |-> target[key]],
     transition |-> IF "transition" \in DOMAIN target THEN target["transition"]
                    ELSE NoTransition,
     transitionEnd |-> IF "transitionEnd" \in DOMAIN target
                       THEN target["transitionEnd"].target ELSE NoTarget,
     keys |-> keys,
     endKeys |-> IF "transitionEnd" \in DOMAIN target
                 THEN target["transitionEnd"].keys ELSE <<>>]

animateBaseTargetMutant(m, c) == m
animateBaseTarget(m, c) ==
    animate(m, c, BaseVariant(m.baseTarget[c], m.baseKeys[c]), NoOpts, NoCtx).m

clearOverrideReturnsEarly(highest, overrideIndex) == highest > overrideIndex

\* a definition tested for truth: undefined and the empty string are false,
\* every array, object and function is true
truthy(definition) ==
    /\ definition # Undefined
    /\ ~(isLabel(definition) /\ definition.label = "")

\* clearOverride once the slot is emptied and isAnimating reset
clearOverrideCleared(m, c, overrideIndex, highest) ==
    IF clearOverrideReturnsEarly(highest, overrideIndex) THEN m
    ELSE animateBaseTarget(
            IF truthy(Slot(m.overrides[c], highest))
            THEN start(m, c, Slot(m.overrides[c], highest), Opts(highest, 0),
                       "clearOverride").m
            ELSE m,
            c)

clearOverrideSlot(m, c, overrideIndex) ==
    [m EXCEPT !.overrides[c][overrideIndex + 1] = Undefined]

\* (mutant: an unset slot is cleared like a set one)
clearOverrideUnsetMutant(m, c, overrideIndex) == FALSE
\* if (!override) return
clearOverrideUnset(m, c, overrideIndex) ==
    ~truthy(Slot(m.overrides[c], overrideIndex))

clearOverride(m, c, overrideIndex) ==
    IF clearOverrideUnset(m, c, overrideIndex) THEN m
    ELSE clearOverrideCleared(
            resetIsAnimating(clearOverrideSlot(m, c, overrideIndex), c),
            c, overrideIndex,
            getHighestPriority(clearOverrideSlot(m, c, overrideIndex).overrides[c]))

\* one label of applyVariantLabels: transitionEnd first, then target
applyTarget(a, c, target, keys) ==
    IF target # NoTarget THEN setValues(a.m, c, target, keys, a.isActive, NoCtx)
    ELSE a

applyResolved(a, c, r) ==
    applyTarget(applyTarget(a, c, r.transitionEnd, r.endKeys), c, r.target, r.keys)

RECURSIVE applyVariantLabelsFrom(_, _, _, _)
applyVariantLabelsFrom(a, c, reversedList, i) ==
    IF i > Len(reversedList) THEN a
    ELSE applyVariantLabelsFrom(
            applyResolved(a, c, resolveVariant(VariantOf(c, reversedList[i]),
                                               a.m.props[c])),
            c, reversedList, i + 1)

applyVariantLabels(m, c, variantLabelList) ==
    applyVariantLabelsFrom([m |-> m, isActive |-> {}], c,
                           Reverse(variantLabelList), 1).m

\* Object.keys(definition) of an explicit target: its keys as listed, then
\* "transition" and "transitionEnd" where it has them and they are not
\* listed; a function has no keys
OwnKeys(variant) ==
    IF isTargetResolver(variant) THEN <<>>
    ELSE Listed(variant)
            \o (IF variant.transition # NoTransition
                    /\ \A i \in DOMAIN Listed(variant) :
                            Listed(variant)[i] # "transition"
                THEN <<"transition">> ELSE <<>>)
            \o (IF variant.transitionEnd # NoTarget
                    /\ \A i \in DOMAIN Listed(variant) :
                            Listed(variant)[i] # "transitionEnd"
                THEN <<"transitionEnd">> ELSE <<>>)

\* definition[key]
OwnValue(variant, key) ==
    CASE key = "transition" -> variant.transition
      [] key = "transitionEnd" -> Object(variant.transitionEnd, EndKeys(variant))
      [] OTHER -> variant.target[key]

\* this.setValues(definition): the whole definition is the target, so the
\* objects under "transition" and "transitionEnd" are set as values too
applyDefinition(m, c, variant, keys) ==
    setValues(m, c, [key \in {keys[i] : i \in DOMAIN keys} |-> OwnValue(variant, key)],
              keys, {}, NoCtx).m

apply(m, c, definition) ==
    IF isVariantLabels(definition)
    THEN applyVariantLabels(m, c, definition.labels)
    ELSE IF isLabel(definition)
    THEN applyVariantLabels(m, c, <<definition.label>>)
    ELSE applyDefinition(m, c, definition.variant, OwnKeys(definition.variant))

(* ------------------------------ promise jobs --------------------------- *)

\* the callback of a then() has run: its promise is fulfilled, or adopts the
\* promise the callback returned
Returned(r, derived) ==
    IF r.p = NoPromise THEN Fulfill(r.m, derived)
    ELSE Enqueue(r.m, AdoptJob(derived, r.p))

RunJob(m, job) ==
    CASE job.type = "allElem" ->
            IF m.promises[job.p].remaining = 1
            THEN Fulfill([m EXCEPT !.promises[job.p].remaining = 0], job.p)
            ELSE [m EXCEPT !.promises[job.p].remaining = @ - 1]
      [] job.type = "then" -> Returned(RunCallback(m, job.cb), job.p)
      [] job.type = "adopt" -> React(m, job.q, ResolveJob(job.p))
      [] job.type = "resolve" -> Fulfill(m, job.p)

(* ------------------------------- inputs -------------------------------- *)

\* the variants the components declare.  The parent sequences "visible"
\* before its children and "hidden" after them; "dim" carries no transition
\* props => ({ x: props ? props.to : 0 }), for props.to 1 or 2
ByProps ==
    Resolver([p \in Props \cup {NoProps} |->
                Variant(Target1("x", CASE p = "p1" -> "1" [] p = "p2" -> "2"
                                       [] OTHER -> "0"),
                        NoTransition, NoTarget)])

RootVariants ==
    [label \in {"visible", "hidden", "dim", "byProps"} |->
        CASE label = "byProps" -> ByProps
          [] label = "visible" ->
                Variant(Target1("x", "1"), Transition(TRUE, FALSE, 1, 2, 1),
                        Target1("d", "block"))
          [] label = "hidden" ->
                Variant(Target1("x", "0"), Transition(FALSE, TRUE, 0, 1, -1),
                        Target1("d", "none"))
          [] label = "dim" ->
                Variant(Target1("x", "2"), NoTransition, NoTarget)]

KidAVariants ==
    [label \in {"visible", "hidden", "dim"} |->
        CASE label = "visible" -> Variant(Target1("x", "1"), NoTransition, NoTarget)
          [] label = "hidden" ->
                Variant(Target1("x", "0"), NoTransition, Target1("d", "none"))
          [] label = "dim" -> Variant(Target1("x", "2"), NoTransition, NoTarget)]

KidBVariants ==
    [label \in {"visible"} |-> Variant(Target1("x", "2"), NoTransition, NoTarget)]

\* the third child declares what the first does
DeclaredVariants ==
    [c \in Ctrl |-> IF c = Root THEN RootVariants
                    ELSE IF c = KidB THEN KidBVariants ELSE KidAVariants]

\* explicit targets a caller passes
ToX2 == TargetDef(Variant(Target1("x", "2"), NoTransition, NoTarget))
ToDNone == TargetDef(Variant(Target1("d", "none"), NoTransition, NoTarget))
OnlyTransitionEnd == TargetDef(Variant(NoKeys, NoTransition, Target1("d", "none")))
\* { x: 2, d: "block", transitionEnd: { d: "none" } }
Press ==
    TargetDef(Variant(Target2("x", "2", "d", "block"), NoTransition,
                      Target1("d", "none")))
OnlyTransition == TargetDef(Variant(NoKeys, Transition(TRUE, FALSE, 0, 0, 0), NoTarget))
\* { x: 1, transitionEnd: { d: "none", x: 0 } }
EndFirst ==
    TargetDef(OrderedEnd(Variant(Target1("x", "1"), NoTransition,
                                 Target2("d", "none", "x", "0")),
                         <<"d", "x">>))

\* Three kinds of behaviour, told apart by who calls the controllers:
\*   "gestures": a parent with both children registered, driven by its animate
\*               prop (no priority, or priority 0) and by two gesture layers;
\*   "tree":     the same tree, driven by labels, while children register,
\*               unregister and run a gesture of their own;
\*   "single":   a controller that starts without children and may get one,
\*               driven by labels, explicit targets, apply() and stop().
\*   "rerender": the same tree rendered again, its children registering in
\*               either order before a label is propagated;
\*   "props":    a controller without children whose variant is a function of
\*               its props, given new props, variants and default transition
\*               by later renders, under one gesture layer;
\*   "slots":    the first tree, whose caller also passes the empty label,
\*               writes an override slot without starting it and applies a
\*               target with an undefined value;
\*   "nested":   a tree of depth two: the second child of the parent, which
\*               declares "lit" and no variant the parent names, runs a
\*               gesture and has a child of its own that registers and
\*               unregisters.
Scenarios == {"gestures", "tree", "single", "rerender", "props", "slots", "nested"}

\* the start(definition, {priority}) calls of a scenario: <<c, definition, priority>>
StartCalls ==
    CASE scenario = "gestures" ->
            {<<Root, LabelDef("visible"), NoPriority>>,
             <<Root, LabelDef("hidden"), 0>>,
             <<Root, ToDNone, 1>>,
             <<Root, ToX2, 2>>}
      [] scenario = "tree" ->
            {<<Root, LabelDef("visible"), NoPriority>>,
             <<Root, LabelDef("hidden"), NoPriority>>,
             <<Root, LabelDef("dim"), NoPriority>>,
             <<Root, LabelsDef(<<"visible", "hidden">>), NoPriority>>,
             <<KidA, ToX2, 1>>}
      [] scenario = "single" ->
            {<<Root, LabelDef("hidden"), NoPriority>>,
             <<Root, LabelDef("ghost"), NoPriority>>,
             <<Root, ToX2, 0>>,
             <<Root, TargetDef(Variant(Target2("x", Absent, "d", "none"),
                                       NoTransition, NoTarget)), 0>>,
             <<Root, OnlyTransitionEnd, NoPriority>>,
             <<Root, OnlyTransition, NoPriority>>}
      [] scenario = "rerender" ->
            {<<Root, LabelDef("visible"), NoPriority>>}
      [] scenario = "props" ->
            {<<Root, LabelDef("byProps"), NoPriority>>,
             <<Root, LabelDef("visible"), NoPriority>>,
             <<Root, LabelsDef(<<"byProps">>), NoPriority>>,
             <<Root, TargetDef(ByProps), NoPriority>>,
             <<Root, Press, 1>>}
      [] scenario = "slots" ->
            {<<Root, LabelDef(""), 0>>,
             <<Root, LabelDef(""), 1>>,
             <<Root, LabelDef("hidden"), 0>>,
             <<Root, EndFirst, 1>>}
      [] scenario = "nested" ->
            {<<Root, LabelDef("visible"), NoPriority>>,
             <<Root, LabelDef("hidden"), NoPriority>>,
             <<KidB, ToX2, 1>>}

\* the clearOverride(i) calls: <<c, i>>
ClearCalls ==
    CASE scenario = "gestures" -> {<<Root, i>> : i \in 0..MaxPriority}
      [] scenario = "tree" -> {<<KidA, 1>>}
      [] scenario = "single" -> {<<Root, 0>>}
      [] scenario = "rerender" -> {}
      [] scenario = "props" -> {}
      [] scenario = "slots" -> {<<Root, 1>>}
      [] scenario = "nested" -> {}

\* the apply(definition) calls: <<c, definition>>
ApplyCalls ==
    CASE scenario = "gestures" -> {}
      [] scenario = "tree" -> {}
      [] scenario = "single" ->
            {<<Root, LabelDef("hidden")>>,
             <<Root, LabelsDef(<<"visible", "hidden">>)>>}
      [] scenario = "rerender" -> {}
      [] scenario = "props" ->
            {<<Root, TargetDef(Variant(Target1("x", "2"), NoTransition, NoTarget))>>,
             <<Root, TargetDef(ByProps)>>}
      [] scenario = "slots" ->
            {<<Root, TargetDef(Variant(Target2("x", Absent, "d", "none"),
                                       NoTransition, NoTarget))>>}
      [] scenario = "nested" -> {}

\* the controllers whose stop() is called
StopCalls == IF scenario = "single" THEN {Root} ELSE {}

\* the children whose registration with a controller changes: <<c, child>>
RegistryCalls ==
    CASE scenario = "gestures" -> {}
      [] scenario = "tree" -> {<<Root, kid>> : kid \in Kids}
      [] scenario = "single" -> {<<Root, KidA>>}
      [] scenario = "rerender" -> {<<Root, kid>> : kid \in Kids}
      [] scenario = "props" -> {}
      [] scenario = "slots" -> {}
      [] scenario = "nested" -> {<<KidB, KidC>>}

\* the setPriorityAnimation(definition, priority) calls:
\* <<c, definition, priority>>
PriorityCalls ==
    IF scenario = "slots" THEN {<<Root, LabelDef("hidden"), 1>>} ELSE {}

\* the checkForNewValues(target) calls, by the keys of the target: <<c, keys>>
NewValuesCalls == IF scenario = "slots" THEN {<<Root, <<"d", "x">>>>} ELSE {}

\* the setProps(props) calls: <<c, props>>
PropsCalls ==
    IF scenario = "props" THEN {<<Root, p>> : p \in Props} ELSE {}

\* setVariants(undefined)
NoVariants == [undefined |-> TRUE]

\* the setVariants(variants) calls of a later render, with
\* { visible: { x: 2 } } and with undefined: <<c, variants>>
VariantsCalls ==
    IF scenario = "props"
    THEN {<<Root, [label \in {"visible"} |->
                     Variant(Target1("x", "2"), NoTransition, NoTarget)]>>,
          <<Root, NoVariants>>}
    ELSE {}

\* the setDefaultTransition(transition) calls of a later render:
\* <<c, transition>>
DefaultTransitionCalls ==
    IF scenario = "props"
    THEN {<<Root, DelayOnly(2)>>, <<Root, NoTransition>>} ELSE {}

\* how many public-method calls a behaviour of the scenario makes
CallBudget == IF scenario = "rerender" THEN MaxRenderCalls ELSE MaxCalls

\* the scenarios whose first render registers no child
Childless == {"single", "props"}

(* ------------------------------- actions ------------------------------- *)

\* the state after construction and the first render, which stores the
\* variants and registers the children (useAnimationControls)
Init ==
    /\ scenario \in Scenarios
    /\ values = [c \in Ctrl |-> Target1("x", "0")]
    /\ baseTarget = [c \in Ctrl |-> NoKeys]
    /\ baseKeys = [c \in Ctrl |-> <<>>]
    /\ defaultTransition = [c \in Ctrl |-> NoTransition]
    /\ overrides = [c \in Ctrl |-> <<>>]
    /\ isAnimating = [c \in Ctrl |-> {}]
    /\ children = [c \in Ctrl |->
                        IF c = Root /\ scenario \notin Childless
                        THEN <<KidA, KidB>>
                        ELSE IF c = KidB /\ scenario = "nested"
                        THEN <<KidC>> ELSE <<>>]
    /\ hasChildren = [c \in Ctrl |-> children[c] # <<>>]
    /\ variants = IF scenario = "nested"
                  THEN [DeclaredVariants EXCEPT
                            ![KidB] = [label \in {"lit"} |-> @["visible"]]]
                  ELSE DeclaredVariants
    /\ props = [c \in Ctrl |-> "p1"]
    /\ promises = <<>>
    /\ queue = <<>>
    /\ calls = <<>>
    /\ effects = <<>>
    /\ adds = [c \in Ctrl |-> Registered(children[c])]
    /\ last = [op |-> "init"]
    /\ ncalls = 0

\* a task (an event handler, an effect, a frame callback) calls the public
\* methods: when no promise job is waiting, or right after another call of
\* the same task
CallOps == {"start", "clearOverride", "apply", "stop", "addChild",
            "removeChild", "resetChildren", "setProps", "setVariants",
            "setDefaultTransition", "setPriorityAnimation",
            "checkForNewValues"}
InTask == queue = <<>> \/ last.op \in CallOps

Called(m) ==
    /\ Commit(m)
    /\ ncalls' = ncalls + 1
    /\ UNCHANGED <<variants, defaultTransition, scenario>>

Start(c, definition, opts) ==
    /\ InTask
    /\ ncalls < CallBudget
    /\ Called(start(Machine, c, definition, opts, "caller").m)
    /\ last' = [op |-> "start", c |-> c, definition |-> definition,
                opts |-> opts, call |-> Len(calls) + 1]

ClearOverride(c, overrideIndex) ==
    /\ InTask
    /\ ncalls < CallBudget
    /\ Called(clearOverride(Machine, c, overrideIndex))
    /\ last' = [op |-> "clearOverride", c |-> c, overrideIndex |-> overrideIndex,
                was |-> Slot(overrides[c], overrideIndex)]

Apply(c, definition) ==
    /\ InTask
    /\ ncalls < CallBudget
    /\ Called(apply(Machine, c, definition))
    /\ last' = [op |-> "apply", c |-> c, definition |-> definition]

SetPriorityAnimation(c, definition, priority) ==
    /\ InTask
    /\ ncalls < CallBudget
    /\ Called(setPriorityAnimation(Machine, c, definition, priority))
    /\ last' = [op |-> "setPriorityAnimation", c |-> c,
                definition |-> definition, priority |-> priority]

CheckForNewValues(c, keys) ==
    /\ InTask
    /\ ncalls < CallBudget
    /\ Called(checkForNewValues(Machine, c, keys, NoCtx))
    /\ last' = [op |-> "checkForNewValues", c |-> c, keys |-> keys]

setProps(m, c, p) == [m EXCEPT !.props[c] = p]

SetProps(c, p) ==
    /\ InTask
    /\ ncalls < CallBudget
    /\ Called(setProps(Machine, c, p))
    /\ last' = [op |-> "setProps", c |-> c, props |-> p]

\* a setter that stores no state a handler writes
Configured(c, op, given) ==
    /\ InTask
    /\ ncalls < CallBudget
    /\ Commit(Machine)
    /\ ncalls' = ncalls + 1
    /\ last' = [op |-> op, c |-> c, given |-> given]
    /\ UNCHANGED scenario

\* if (variants) this.variants = variants
setVariants(current, given) == IF given = NoVariants THEN current ELSE given

SetVariants(c, given) ==
    /\ Configured(c, "setVariants", given)
    /\ variants' = [variants EXCEPT ![c] = setVariants(@, given)]
    /\ UNCHANGED defaultTransition

\* if (transition) this.defaultTransition = transition
setDefaultTransition(current, given) ==
    IF given = NoTransition THEN current ELSE given

SetDefaultTransition(c, given) ==
    /\ Configured(c, "setDefaultTransition", given)
    /\ defaultTransition' = [defaultTransition EXCEPT
                                ![c] = setDefaultTransition(@, given)]
    /\ UNCHANGED variants

\* this.values.forEach(value => value.stop())
stop(m, c) ==
    [m EXCEPT !.promises =
        [p \in DOMAIN @ |->
            IF @[p].kind = "control" /\ @[p].c = c
            THEN [@[p] EXCEPT !.active = FALSE] ELSE @[p]]]

Stop(c) ==
    /\ InTask
    /\ ncalls < CallBudget
    /\ Called(stop(Machine, c))
    /\ last' = [op |-> "stop", c |-> c]

\* this.children.add(controls): a Set keeps the first insertion's position
\* (mutant: a child added again moves to the end)
addChildMutant(m, c, controls) ==
    [m EXCEPT !.hasChildren[c] = TRUE,
              !.children[c] = Append(SelectSeq(@, LAMBDA x : x # controls), controls),
              !.adds[c].seq = Append(@, controls)]
addChild(m, c, controls) ==
    [m EXCEPT !.hasChildren[c] = TRUE,
              !.children[c] = IF \E i \in DOMAIN @ : @[i] = controls
                              THEN @ ELSE Append(@, controls),
              !.adds[c].seq = Append(@, controls)]

removeChild(m, c, controls) ==
    IF ~m.hasChildren[c] THEN [m EXCEPT !.adds[c].removed = TRUE]
    ELSE [m EXCEPT !.children[c] = SelectSeq(@, LAMBDA x : x # controls),
                   !.adds[c].removed = TRUE]

resetChildren(m, c) ==
    IF m.hasChildren[c]
    THEN [m EXCEPT !.children[c] = <<>>, !.adds[c] = AfterReset]
    ELSE [m EXCEPT !.adds[c] = AfterReset]

AddChild(c, controls) ==
    /\ InTask
    /\ ncalls < CallBudget
    /\ Called(addChild(Machine, c, controls))
    /\ last' = [op |-> "addChild", c |-> c, controls |-> controls]

RemoveChild(c, controls) ==
    /\ InTask
    /\ ncalls < CallBudget
    /\ Called(removeChild(Machine, c, controls))
    /\ last' = [op |-> "removeChild", c |-> c, controls |-> controls]

ResetChildren(c) ==
    /\ InTask
    /\ ncalls < CallBudget
    /\ Called(resetChildren(Machine, c))
    /\ last' = [op |-> "resetChildren", c |-> c]

\* the scheduler completes a running animation: the value reaches its target
\* and the completion is fulfilled; several may complete in one frame
Settle(p) ==
    /\ queue = <<>> \/ last.op = "settle"
    /\ promises[p].kind = "control"
    /\ promises[p].active
    /\ Commit(Fulfill([Machine EXCEPT
                            !.values[promises[p].c][promises[p].key] = promises[p].to,
                            !.promises[p].active = FALSE], p))
    /\ last' = [op |-> "settle", p |-> p]
    /\ UNCHANGED <<variants, defaultTransition, scenario, ncalls>>

\* the next promise job runs
Job ==
    /\ queue # <<>>
    /\ \E m \in {RunJob([Machine EXCEPT !.queue = Tail(@)], Head(queue))} :
          Commit(m)
    /\ last' = [op |-> "job", job |-> Head(queue)]
    /\ UNCHANGED <<variants, defaultTransition, scenario, ncalls>>

Next ==
    \/ \E call \in StartCalls : Start(call[1], call[2], Opts(call[3], 0))
    \/ \E call \in ClearCalls : ClearOverride(call[1], call[2])
    \/ \E call \in ApplyCalls : Apply(call[1], call[2])
    \/ \E call \in PriorityCalls : SetPriorityAnimation(call[1], call[2], call[3])
    \/ \E call \in NewValuesCalls : CheckForNewValues(call[1], call[2])
    \/ \E c \in StopCalls : Stop(c)
    \/ \E call \in RegistryCalls : AddChild(call[1], call[2])
    \/ \E call \in RegistryCalls : RemoveChild(call[1], call[2])
    \/ \E call \in RegistryCalls : ResetChildren(call[1])
    \/ \E call \in PropsCalls : SetProps(call[1], call[2])
    \/ \E call \in VariantsCalls : SetVariants(call[1], call[2])
    \/ \E call \in DefaultTransitionCalls : SetDefaultTransition(call[1], call[2])
    \/ \E p \in DOMAIN promises : Settle(p)
    \/ Job

Spec == Init /\ [][Next]_vars

\* A controller tree under MaxLiveCalls calls, with the event loop running every
\* promise job that is queued.
LiveInit == Init /\ scenario = "tree"

LiveNext ==
    \/ /\ ncalls < MaxLiveCalls
       /\ \/ \E call \in StartCalls : Start(call[1], call[2], Opts(call[3], 0))
          \/ \E call \in ClearCalls : ClearOverride(call[1], call[2])
    \/ \E p \in DOMAIN promises : Settle(p)
    \/ Job

\* a step of Job, told by what it leaves in last: Job alone sets last to the
\* job at the head of the queue, and no job is queued twice
JobTaken == queue # <<>> /\ last' = [op |-> "job", job |-> Head(queue)]

FairSpec == LiveInit /\ [][LiveNext]_vars /\ WF_last(JobTaken)

(* ------------------------------- claims -------------------------------- *)

Occupied(c, i) == Slot(overrides[c], i) # Undefined
HigherOccupied(c, p) == \E i \in (p + 1)..(Len(overrides[c]) - 1) : Occupied(c, i)

\* what the last step did
Effects == {effects[i] : i \in DOMAIN effects}
ValueOps == {"control", "set", "create"}
ValueEffectsOf(call) == {e \in Effects : e.op \in ValueOps /\ e.call = call}
StartsOfStep == {e \in Effects : e.op = "start"}

ExplicitPriority(call) == calls[call].opts.priority # NoPriority
AlreadyResolved(call) ==
    /\ calls[call].ret # NoPromise
    /\ promises[calls[call].ret].kind = "resolved"
    /\ promises[calls[call].ret].state = "fulfilled"

(* C1: a start() whose priority is below an occupied higher slot starts    *)
(* nothing and returns a completion that is already resolved.              *)

\* C1 as stated, the priority of a call without one counted as 0: every
\* start() made while a slot above its priority is occupied sets and animates
\* no value and returns a resolved completion
C1_LowerNeverPreempts ==
    \A e \in StartsOfStep :
        HigherOccupied(e.c, e.priority)
            => ValueEffectsOf(e.call) = {} /\ AlreadyResolved(e.call)

\* C1 for the calls that give a priority: a start() with an explicit priority p,
\* made while a slot above p is occupied, sets and animates no value and
\* returns a resolved completion
C1_ExplicitLowerNeverPreempts ==
    \A e \in StartsOfStep :
        (ExplicitPriority(e.call) /\ HigherOccupied(e.c, e.priority))
            => ValueEffectsOf(e.call) = {} /\ AlreadyResolved(e.call)

\* a start() at priority 0 is made while slot 2 holds an override
C1_Witness ==
    /\ last.op = "start"
    /\ last.opts.priority = 0
    /\ Occupied(last.c, 2)
    /\ AlreadyResolved(last.call)

(* C8: isHighestPriority(p) looks only at the slots above p.                *)

\* C8: isHighestPriority(p) is true exactly when no slot with an index above p
\* is occupied, whatever the slots at or below p hold
C8_IsHighestPriority ==
    \A c \in Ctrl : \A p \in 0..(MaxPriority + 1) :
        isHighestPriority(overrides[c], p) <=> ~HigherOccupied(c, p)

\* slots 0 and 2 are occupied, slot 1 is not: 2 is highest, 1 is not
C8_Witness ==
    /\ Occupied(Root, 0) /\ ~Occupied(Root, 1) /\ Occupied(Root, 2)
    /\ isHighestPriority(overrides[Root], 2)
    /\ ~isHighestPriority(overrides[Root], 1)

(* C7: a deferred start() records its definition and does nothing else.    *)

DeferredStartStep ==
    /\ last'.op = "start"
    /\ last'.opts.priority # NoPriority
    /\ HigherOccupied(last'.c, last'.opts.priority)

OnlySlotChanges(c, p) ==
    /\ Slot(overrides'[c], p) = last'.definition
    /\ \A d \in Ctrl : \A i \in 0..(MaxPriority + 1) :
          (d # c \/ i # p) => Slot(overrides'[d], i) = Slot(overrides[d], i)

\* C7: a start() with an explicit priority p that is deferred leaves the
\* values, the base target, the registered children and the isAnimating set as
\* they were, and changes no override slot but p
C7_DeferredStartChangesOnlyItsSlot ==
    [][DeferredStartStep =>
          /\ UNCHANGED <<values, baseTarget, children, hasChildren, isAnimating>>
          /\ OnlySlotChanges(last'.c, last'.opts.priority)]_vars

\* a start() was deferred while a property of its controller was animating
C7_Witness ==
    /\ last.op = "start"
    /\ calls[last.call].deferred
    /\ isAnimating[last.c] # {}
    /\ Slot(overrides[last.c], last.opts.priority) = last.definition

(* C3: clearOverride re-starts the override that becomes the highest.      *)

AnyOccupied(c) == \E i \in 0..(Len(overrides[c]) - 1) : Occupied(c, i)
HighestOccupied(c) ==
    CHOOSE h \in 0..(Len(overrides[c]) - 1) :
        Occupied(c, h) /\ ~HigherOccupied(c, h)

\* a clearOverride(i) that found slot i occupied
ClearedOccupied == last.op = "clearOverride" /\ last.was # Undefined

RestartedAt(c, h) ==
    \E e \in StartsOfStep :
        /\ e.c = c
        /\ e.definition = Slot(overrides[c], h)
        /\ e.priority = h
        /\ calls[e.call].opts.priority = h
        /\ ~e.deferred

\* C3: a deferred start() stays recorded in its slot, and after
\* clearOverride(i) on an occupied slot the definition in the highest remaining
\* occupied slot h <= i is started with priority h and not deferred, while
\* nothing is started when a slot above i is still occupied (a slot is
\* occupied when it is not undefined, as isHighestPriority reads it)
C3_ClearOverrideRestartsHighest ==
    /\ \A e \in StartsOfStep :
          e.deferred => Slot(overrides[e.c], e.priority) = e.definition
    /\ ClearedOccupied =>
          IF HigherOccupied(last.c, last.overrideIndex)
          THEN StartsOfStep = {}
          ELSE IF AnyOccupied(last.c)
               THEN /\ HighestOccupied(last.c) <= last.overrideIndex
                    /\ RestartedAt(last.c, HighestOccupied(last.c))
               ELSE StartsOfStep = {}

(* C2: clearOverride reverts the properties no override targets any more.  *)

\* a variant as animate() reads it
Read(variant) == resolveVariant(variant, NoProps)
Declared(c, label) == Read(variants[c][label])

LabelTargetKeys(c, label) ==
    IF label \in DOMAIN variants[c] /\ Declared(c, label).target # NoTarget
    THEN DOMAIN Declared(c, label).target
    ELSE {}

\* the properties a definition targets
TargetKeysOf(c, def) ==
    CASE def.kind = "label" -> LabelTargetKeys(c, def.label)
      [] def.kind = "labels" ->
            UNION {LabelTargetKeys(c, def.labels[i]) : i \in DOMAIN def.labels}
      [] def.kind = "target" ->
            IF Read(def.variant).target # NoTarget
            THEN DOMAIN Read(def.variant).target ELSE {}
      [] OTHER -> {}

StillTargeted(c) ==
    UNION {TargetKeysOf(c, Slot(overrides[c], i)) : i \in 0..(Len(overrides[c]) - 1)}

\* the step handed key to control() towards v, or set it to v
AnimatedTo(c, key, v) ==
    \E e \in Effects :
        e.op \in {"control", "set"} /\ e.c = c /\ e.key = key /\ e.val = v

\* the properties of the base target that no remaining override targets, and
\* those of them whose base-target value is not undefined
Untargeted(c) == DOMAIN baseTarget[c] \ StillTargeted(c)
UntargetedDefined(c) == {key \in Untargeted(c) : baseTarget[c][key] # Absent}

Reverted(c, keys) == \A key \in keys : AnimatedTo(c, key, baseTarget[c][key])

\* C2 as stated: after clearOverride(i) on an occupied slot, also when a slot
\* above i is still occupied, every property no remaining override targets is
\* animated back to its base-target value
C2_ClearOverrideReverts == ClearedOccupied => Reverted(last.c, Untargeted(last.c))

\* a clearOverride(i) that found slot i occupied and emptied it
ClearedSlot == ClearedOccupied /\ ~Occupied(last.c, last.overrideIndex)

\* C2 when slot i was the highest: after clearOverride(i) has emptied an
\* occupied slot with no slot above i occupied, every property whose
\* base-target value is not undefined and that no remaining override targets
\* is animated back to that value, and a property whose base-target value is
\* undefined is neither animated nor set by the call; with a slot above i
\* occupied, the call animates and sets nothing
C2_ClearHighestOverrideReverts ==
    ClearedSlot =>
        IF HigherOccupied(last.c, last.overrideIndex)
        THEN {e \in Effects : e.op \in ValueOps} = {}
        ELSE /\ Reverted(last.c, UntargetedDefined(last.c))
             /\ \A key \in Untargeted(last.c) \ UntargetedDefined(last.c) :
                   \A e \in Effects :
                       e.op \in ValueOps => ~(e.c = last.c /\ e.key = key)

\* clearOverride(1) sends a property back to its base value while slot 0 keeps
\* targeting another one
C2_Witness ==
    /\ ClearedSlot
    /\ last.overrideIndex = 1
    /\ ~HigherOccupied(last.c, 1)
    /\ Occupied(last.c, 0)
    /\ \E key \in DOMAIN baseTarget[last.c] \ StillTargeted(last.c) :
          /\ AnimatedTo(last.c, key, baseTarget[last.c][key])
          /\ values[last.c][key] = baseTarget[last.c][key] => key = "d"

(* C4: transitionEnd is assigned once every animation of the pass is done. *)

Promises == DOMAIN promises
ControlsOfPass(pass) ==
    {p \in Promises : promises[p].kind = "control" /\ promises[p].pass = pass}
TransitionEndsOfStep == {e \in Effects : e.op = "transitionEnd"}

\* C4: when an animate call assigns its transitionEnd values, the completion of
\* every per-property animation that call started has resolved, and the
\* assignment hands nothing to control()
C4_TransitionEndAfterAnimations ==
    \A e \in TransitionEndsOfStep :
        /\ \A p \in ControlsOfPass(e.pass) : promises[p].state = "fulfilled"
        /\ \A f \in Effects : f.op # "control"

\* start("hidden") on Root: d is set to "none" after the animation of x is done
C4_Witness ==
    \E e \in TransitionEndsOfStep :
        /\ e.c = Root
        /\ ControlsOfPass(e.pass) # {}
        /\ \A p \in ControlsOfPass(e.pass) : promises[p].key = "x"
        /\ "d" \in DOMAIN values[Root] /\ values[Root]["d"] = "none"
        /\ \E f \in Effects : f.op \in {"set", "create"} /\ f.key = "d"

(* C5: beforeChildren and afterChildren order own and children animations. *)

HasFlags(c, label) ==
    /\ hasChildren[c]
    /\ label \in DOMAIN variants[c]
    /\ Declared(c, label).transition # NoTransition
BeforeChildren(c, label) ==
    HasFlags(c, label) /\ Declared(c, label).transition.beforeChildren
AfterChildren(c, label) ==
    /\ HasFlags(c, label)
    /\ Declared(c, label).transition.afterChildren
    /\ ~Declared(c, label).transition.beforeChildren

\* the propagations of the step: animateVariant invoked on a controller below
\* the one start() was called on
PropagatedOfStep ==
    {e \in Effects : e.op = "animateVariant" /\ e.c # calls[e.call].c}

\* the controller whose registry holds the child
ParentOf(kid) ==
    CHOOSE c \in Ctrl : \E i \in DOMAIN children[c] : children[c][i] = kid
OwnAnimatesOfStep == {e \in Effects : e.op = "animate" /\ e.label # ""}

\* the own animation of c for a label of a call is complete, transitionEnd included
OwnCompleted(c, call, label) ==
    \E p \in Promises :
        /\ promises[p].tag.k = "transitionEnd"
        /\ promises[p].tag.c = c
        /\ promises[p].tag.ctx = Ctx(call, label)
        /\ promises[p].state = "fulfilled"
        /\ \A q \in ControlsOfPass(promises[p].tag.pass) :
              promises[q].state = "fulfilled"

ChildrenCompleted(c, call, label) ==
    \E p \in Promises :
        /\ promises[p].tag.k = "animateChildren"
        /\ promises[p].tag.c = c
        /\ promises[p].tag.ctx = Ctx(call, label)
        /\ promises[p].state = "fulfilled"

StartedTogether(c, call, label) ==
    /\ \E f \in OwnAnimatesOfStep : f.c = c /\ f.call = call /\ f.label = label
    /\ \A i \in DOMAIN children[c] :
          \E f \in Effects :
              /\ f.op = "animateVariant"
              /\ f.c = children[c][i] /\ f.call = call /\ f.label = label

\* C5: on a controller with children, with beforeChildren a child's
\* animateVariant for the label is invoked only once the controller's own
\* animation and transitionEnd assignment are complete; with afterChildren alone
\* the controller's own animate is invoked only once the children's completion
\* has resolved; with neither flag both are started in the same step
C5_ChildrenSequencing ==
    /\ \A e \in PropagatedOfStep :
          /\ BeforeChildren(calls[e.call].c, e.label)
                => OwnCompleted(calls[e.call].c, e.call, e.label)
          /\ BeforeChildren(ParentOf(e.c), e.label)
                => OwnCompleted(ParentOf(e.c), e.call, e.label)
    /\ \A e \in OwnAnimatesOfStep :
          AfterChildren(e.c, e.label) => ChildrenCompleted(e.c, e.call, e.label)
    /\ \A e \in Effects :
          (/\ e.op = "animateVariant"
           /\ hasChildren[e.c]
           /\ e.label \in DOMAIN variants[e.c]
           /\ ~BeforeChildren(e.c, e.label)
           /\ ~AfterChildren(e.c, e.label))
              => StartedTogether(e.c, e.call, e.label)

\* "visible" reaches the children of Root after Root set d at transitionEnd
C5_Witness ==
    /\ last.op = "job"
    /\ \E e \in PropagatedOfStep :
          /\ e.label = "visible" /\ calls[e.call].c = Root
          /\ OwnCompleted(Root, e.call, "visible")
    /\ "d" \in DOMAIN values[Root] /\ values[Root]["d"] = "block"

(* C6: the completion of start() waits for every animation it triggered.   *)

ControlsOfCall(n) ==
    {p \in Promises : promises[p].kind = "control" /\ promises[p].call = n}
Started(n) == n \in DOMAIN calls /\ ~calls[n].deferred
Resolved(n) ==
    /\ n \in DOMAIN calls
    /\ calls[n].ret # NoPromise
    /\ promises[calls[n].ret].state = "fulfilled"
AllSettled(n) == \A p \in ControlsOfCall(n) : promises[p].state = "fulfilled"

\* C6: the completion returned by a start() that was not deferred is not
\* resolved while a property animation the call triggered, on the controller
\* or on a child reached by propagation, is unsettled; and it is eventually
\* resolved when, from some point on, all those animations are settled
C6_CompletionWaitsForAnimations ==
    /\ [](\A n \in 1..MaxLiveCalls : (Started(n) /\ Resolved(n)) => AllSettled(n))
    /\ \A n \in 1..MaxLiveCalls :
          <>[](Started(n) /\ AllSettled(n)) => <>Resolved(n)

\* a start() on Root is resolved after animations of Root and of a child settled
C6_Witness ==
    \E n \in DOMAIN calls :
        /\ Started(n) /\ Resolved(n)
        /\ calls[n].c = Root
        /\ \E p \in ControlsOfCall(n) : promises[p].c = Root
        /\ \E p \in ControlsOfCall(n) : promises[p].c \in Kids

(* C9: a later priority-0 start() replaces the base target of shared keys. *)

\* the value a definition gives a key it targets: in a list of labels the last
\* label that targets the key wins
LastLabelWith(c, labels, key) ==
    CHOOSE i \in DOMAIN labels :
        /\ key \in LabelTargetKeys(c, labels[i])
        /\ \A j \in DOMAIN labels : j > i => key \notin LabelTargetKeys(c, labels[j])

ResolvedValue(c, def, key) ==
    CASE def.kind = "label" -> Declared(c, def.label).target[key]
      [] def.kind = "labels" ->
            Declared(c, def.labels[LastLabelWith(c, def.labels, key)]).target[key]
      [] def.kind = "target" -> Read(def.variant).target[key]

LabelsOf(def) ==
    CASE def.kind = "label" -> {def.label}
      [] def.kind = "labels" -> {def.labels[i] : i \in DOMAIN def.labels}
      [] OTHER -> {}

\* start() n - 1 and start() n are calls at priority 0 on one controller, and
\* start() n has just returned
SecondOfTwoStarts(n) ==
    /\ last.op = "start" /\ last.call = n
    /\ n - 1 \in DOMAIN calls
    /\ calls[n - 1].from = "caller"
    /\ calls[n - 1].c = last.c
    /\ PriorityOf(calls[n - 1].opts) = 0
    /\ PriorityOf(last.opts) = 0
    /\ ~HigherOccupied(last.c, 0)

SharedKeys(n) ==
    TargetKeysOf(last.c, calls[n - 1].definition)
        \cap TargetKeysOf(last.c, last.definition)

\* the shared keys to which the second target gives a value that is not
\* undefined
SharedDefined(n) ==
    {key \in SharedKeys(n) : ResolvedValue(last.c, last.definition, key) # Absent}

BaseHoldsSecond(keys) ==
    \A key \in keys :
        /\ key \in DOMAIN baseTarget[last.c]
        /\ baseTarget[last.c][key] = ResolvedValue(last.c, last.definition, key)

\* the controller animates the definition itself before start() returns: no
\* label of it names a variant that sets afterChildren without beforeChildren
\* on a controller that has a child registry, be it empty
AnimatesInCall(c, def) == \A label \in LabelsOf(def) : ~AfterChildren(c, label)

\* C9 as stated: when the second of two start() calls at priority 0 on a
\* controller returns, with no higher slot occupied, the base target holds the
\* second call's target value for every key the two targets share
C9_SecondStartSetsBase ==
    \A n \in DOMAIN calls :
        SecondOfTwoStarts(n) => BaseHoldsSecond(SharedKeys(n))

\* C9 for a second call the controller animates within the call: when no label
\* of the second definition has the controller wait for its children, the base
\* target holds, when the call returns, the second call's target value for
\* every shared key to which the second target gives a value that is not
\* undefined
C9_SecondStartSetsBaseInCall ==
    \A n \in DOMAIN calls :
        (SecondOfTwoStarts(n) /\ AnimatesInCall(last.c, last.definition))
            => BaseHoldsSecond(SharedDefined(n))

\* the second start() moved the base target of a shared key to another value
C9_Witness ==
    \E n \in DOMAIN calls :
        /\ SecondOfTwoStarts(n)
        /\ AnimatesInCall(last.c, last.definition)
        /\ \E key \in SharedDefined(n) :
              /\ baseTarget[last.c][key] = ResolvedValue(last.c, last.definition, key)
              /\ ResolvedValue(last.c, calls[n - 1].definition, key)
                    # ResolvedValue(last.c, last.definition, key)

(* C10: a definition without target properties changes no value.           *)

TransitionEndOf(c, label) ==
    IF label \in DOMAIN variants[c] /\ Declared(c, label).transitionEnd # NoTarget
    THEN DOMAIN Declared(c, label).transitionEnd
    ELSE {}

TransitionEndKeysOf(c, def) ==
    CASE def.kind = "label" -> TransitionEndOf(c, def.label)
      [] def.kind = "labels" ->
            UNION {TransitionEndOf(c, def.labels[i]) : i \in DOMAIN def.labels}
      [] def.kind = "target" ->
            IF Read(def.variant).transitionEnd # NoTarget
            THEN DOMAIN Read(def.variant).transitionEnd ELSE {}
      [] OTHER -> {}

NoTargetKeys(n) == TargetKeysOf(calls[n].c, calls[n].definition) = {}
NoTransitionEnd(n) == TransitionEndKeysOf(calls[n].c, calls[n].definition) = {}

\* no step sets, creates or animates a value of the controller for call n
TouchesNoValue(n) ==
    \A e \in Effects : e.op \in ValueOps => ~(e.call = n /\ e.c = calls[n].c)

\* the completion of call n is resolved once the jobs it queued have run
ResolvesWhenIdle(n) == (queue = <<>> /\ AllSettled(n)) => Resolved(n)

\* C10 as stated: for a definition that resolves to no target properties, a
\* variant with only transition or transitionEnd included, start() resolves and
\* no step sets, creates or animates a value of the controller
C10_NoTargetNoEffect ==
    \A n \in DOMAIN calls :
        (Started(n) /\ NoTargetKeys(n)) => (TouchesNoValue(n) /\ ResolvesWhenIdle(n))

\* C10 without transitionEnd: for a label with no variant, or a variant with no
\* target keys and no transitionEnd, start() resolves and no step sets, creates
\* or animates a value of the controller
C10_NoTargetNoEndNoEffect ==
    \A n \in DOMAIN calls :
        (Started(n) /\ NoTargetKeys(n) /\ NoTransitionEnd(n))
            => (TouchesNoValue(n) /\ ResolvesWhenIdle(n))

\* start("ghost") and start({transition}) have resolved, the values untouched
C10_Witness ==
    /\ queue = <<>>
    /\ \E n \in DOMAIN calls :
          Resolved(n) /\ calls[n].definition = LabelDef("ghost")
    /\ \E n \in DOMAIN calls :
          Resolved(n) /\ calls[n].definition = OnlyTransition
    /\ values[Root] = [k \in {"x"} |-> "0"]

(* C11: the delay a child gets follows its registration index.             *)

\* the zero-based position of a child in the registry of its parent
IndexIn(c, kid) == (CHOOSE i \in DOMAIN children[c] : children[c][i] = kid) - 1

DeclaredDelayChildren(c, label) ==
    IF HasFlags(c, label) THEN Declared(c, label).transition.delayChildren ELSE 0
DeclaredStaggerChildren(c, label) ==
    IF HasFlags(c, label) THEN Declared(c, label).transition.staggerChildren ELSE 0
Forward(c, label) ==
    HasFlags(c, label) => Declared(c, label).transition.staggerDirection \in {0, 1}

\* the delay the claim gives child i of n
StaggeredDelay(c, label, i, n) ==
    IF Forward(c, label)
    THEN DeclaredDelayChildren(c, label) + i * DeclaredStaggerChildren(c, label)
    ELSE DeclaredDelayChildren(c, label)
            + (n - 1) * DeclaredStaggerChildren(c, label)
            - i * DeclaredStaggerChildren(c, label)

MaxStagger == 3

\* C11: a child at zero-based registration index i of N is invoked with delay
\* delayChildren + i * staggerChildren when staggerDirection is 1 and with
\* delayChildren + (N - 1) * staggerChildren - i * staggerChildren otherwise, so
\* the reversed delay of child i is the forward delay of child N - 1 - i
C11_StaggerDelays ==
    /\ \A e \in PropagatedOfStep :
          e.delay = StaggeredDelay(ParentOf(e.c), e.label,
                                   IndexIn(ParentOf(e.c), e.c),
                                   Len(children[ParentOf(e.c)]))
    /\ \A n \in 1..Cardinality(Ctrl) : \A i \in 0..(n - 1) :
          \A stagger \in 0..MaxStagger :
              generateStaggerDuration(i, n, stagger, -1)
                  = generateStaggerDuration(n - 1 - i, n, stagger, 1)

\* "hidden" staggers backwards: the first of two children waits, the second
\* does not
C11_Witness ==
    /\ \E e \in PropagatedOfStep :
          e.c = KidA /\ e.label = "hidden" /\ e.delay = 1 /\ IndexIn(Root, KidA) = 0
    /\ \E e \in PropagatedOfStep :
          e.c = KidB /\ e.label = "hidden" /\ e.delay = 0 /\ IndexIn(Root, KidB) = 1

(* C12: the stagger order is the order of the addChild calls since the     *)
(* registry was last emptied.                                              *)

Added(c) == {adds[c].seq[i] : i \in DOMAIN adds[c].seq}
FirstAdd(c, kid) ==
    CHOOSE i \in DOMAIN adds[c].seq :
        adds[c].seq[i] = kid /\ \A j \in 1..(i - 1) : adds[c].seq[j] # kid

\* the zero-based position of a child among the children added, each counted
\* where it was added first
AddRank(c, kid) == Cardinality({adds[c].seq[j] : j \in 1..(FirstAdd(c, kid) - 1)})

\* C12: in a propagation the stagger index of each child is its position in the
\* sequence of addChild calls made since the registry was last emptied, by
\* resetChildren() if there was one, whatever the order was before; a child
\* added again without a reset keeps the index of its first addChild
C12_StaggerFollowsRegistration ==
    \A e \in PropagatedOfStep :
        ~adds[ParentOf(e.c)].removed =>
            /\ e.c \in Added(ParentOf(e.c))
            /\ IndexIn(ParentOf(e.c), e.c) = AddRank(ParentOf(e.c), e.c)
            /\ e.delay = StaggeredDelay(ParentOf(e.c), e.label,
                                        AddRank(ParentOf(e.c), e.c),
                                        Cardinality(Added(ParentOf(e.c))))

\* after resetChildren(), addChild(KidB), addChild(KidA), "visible" reaches KidB
\* first and KidA two stagger steps later
C12_Witness ==
    /\ adds[Root] = [seq |-> <<KidB, KidA>>, reset |-> TRUE, removed |-> FALSE]
    /\ \E e \in PropagatedOfStep : e.c = KidB /\ e.label = "visible" /\ e.delay = 1
    /\ \E e \in PropagatedOfStep : e.c = KidA /\ e.label = "visible" /\ e.delay = 3

(* C13: a variant in function form is invoked with the current props. *)

\* the animate() runs of this step whose variant was in function form
ResolverAnimatesOfStep ==
    {e \in Effects : e.op = "animate" /\ e.calledWith # ""}

\* C13: whenever start() animates a variant in function form, reached through
\* a label, a label list or given as the definition itself, the function is
\* invoked with the controller's current props, the value last given to
\* setProps.
C13_ResolverGetsProps ==
    \A e \in ResolverAnimatesOfStep : e.calledWith = props[e.c]

(* C14: clearOverride on an unset slot is a no-op. *)

\* the step is a clearOverride(i) call that found slot i unset
ClearsUnsetSlot ==
    /\ last'.op = "clearOverride"
    /\ last'.was = Undefined

\* C14: clearOverride(i) on a slot that is unset, never written or already
\* cleared, changes nothing: overrides, base target, the isAnimating sets of
\* the controller and of its children, the value store and the child registry
\* are unchanged and no animation is started.
C14_ClearUnsetIsNoOp ==
    [][ClearsUnsetSlot =>
        /\ UNCHANGED <<overrides, baseTarget, baseKeys, isAnimating, values,
                       children, hasChildren, promises, queue>>
        /\ effects' = <<>>]_vars

\* clearOverride(2) found its slot unset while slot 1 is occupied and keys
\* are marked as animating
C14_Witness ==
    /\ last.op = "clearOverride" /\ last.c = Root /\ last.overrideIndex = 2
    /\ last.was = Undefined
    /\ Occupied(Root, 1)
    /\ isAnimating[Root] # {}

(* C15: the base target holds only priority-0 resting values. *)

Entry(target, key) == IF key \in DOMAIN target THEN target[key] ELSE Absent

\* the step is a start() at a priority above 0
HigherStartStep ==
    /\ last'.op = "start"
    /\ last'.opts.priority > 0

\* the step assigns the transitionEnd of a start() at a priority above 0
HigherTransitionEndStep ==
    /\ last'.op = "job"
    /\ \E e \in Effects' : e.op = "transitionEnd" /\ e.priority > 0

\* no property the value store already tracks changes its base target entry
TrackedBaseKept ==
    \A c \in Ctrl : \A key \in DOMAIN values[c] :
        Entry(baseTarget'[c], key) = Entry(baseTarget[c], key)

\* C15: for a property already tracked in the value store, no step caused by
\* a start() at a priority above 0, neither its per-property animation nor its
\* later transitionEnd assignment, changes the property's base target entry.
C15_BaseTargetOnlyAtPriorityZero ==
    [][(HigherStartStep \/ HigherTransitionEndStep) => TrackedBaseKept]_vars

(* C16: higher-priority layers win while active, also across the tree. *)

\* the values a controller animated or set for one animate() of a request
ValueEffectsFor(a) ==
    {e \in Effects : /\ e.op \in ValueOps
                     /\ e.c = a.c /\ e.call = a.call /\ e.label = a.label}

\* the values a controller set for the transitionEnd of a request
EndEffectsFor(t) ==
    {e \in Effects : e.op \in {"set", "create"} /\ e.c = t.c /\ e.call = t.call}

\* C16 as stated: while a controller has an occupied override slot q, none of
\* its own values is animated or set by a request of priority p < q, a
\* variant label propagated from its parent's start() at priority p included
C16_HigherLayersWinAcrossTree ==
    /\ \A a \in Effects :
          (a.op = "animate" /\ a.call # NoCall /\ HigherOccupied(a.c, a.priority))
              => ValueEffectsFor(a) = {}
    /\ \A t \in TransitionEndsOfStep :
          HigherOccupied(t.c, t.priority) => EndEffectsFor(t) = {}

\* C16 for the calls that give a priority, made on the controller itself: a
\* start() with an explicit priority p on a controller with an occupied slot
\* above p animates and sets no value of the controller and propagates nothing
\* to its children (the step records the call and nothing else)
C16_ExplicitLowerStartsNothingInTree ==
    \A e \in StartsOfStep :
        (ExplicitPriority(e.call) /\ HigherOccupied(e.c, e.priority))
            => \A f \in Effects : f.call = e.call => f.op = "start"

\* a parent with registered children is asked for a label at priority 0 while
\* its slot 2 holds an override
C16_Witness ==
    /\ last.op = "start"
    /\ last.opts.priority = 0
    /\ last.definition = LabelDef("hidden")
    /\ hasChildren[last.c] /\ children[last.c] # <<>>
    /\ Occupied(last.c, 2)
    /\ \A f \in Effects : f.op = "start"

(* C17: a start() that is not deferred begins a fresh pass. *)

\* the controller and every controller below it in the child registry
RECURSIVE Descendants(_)
Descendants(c) ==
    {c} \cup UNION {Descendants(children[c][i]) : i \in DOMAIN children[c]}

\* start() n has just returned and was not deferred
FreshStart(n) ==
    /\ last.op = "start" /\ last.call = n
    /\ ~calls[n].deferred

\* the keys of controller d handed to control() or set for call n in this step
HandedIn(n, d) ==
    {e.key : e \in {f \in ValueEffectsOf(n) : f.c = d /\ f.op \in {"control", "set"}}}

\* no key marked by an earlier pass is left in the isAnimating set of the
\* controller or of a descendant
NothingLeftMarked(n) ==
    \A d \in Descendants(last.c) : isAnimating[d] \subseteq HandedIn(n, d)

\* the keys to which a resolved variant gives a value that is not undefined
DefinedIn(r) ==
    IF r.target = NoTarget THEN {}
    ELSE {key \in DOMAIN r.target : r.target[key] # Absent}

\* the defined target keys of a definition
DefinedKeysOf(c, def) ==
    CASE def.kind = "label" ->
            IF def.label \in DOMAIN variants[c]
            THEN DefinedIn(Declared(c, def.label)) ELSE {}
      [] def.kind = "labels" ->
            UNION {IF def.labels[i] \in DOMAIN variants[c]
                   THEN DefinedIn(Declared(c, def.labels[i])) ELSE {} :
                   i \in DOMAIN def.labels}
      [] def.kind = "target" -> DefinedIn(Read(def.variant))
      [] OTHER -> {}

\* every defined target key of the definition was handed to control() or set
\* (each has a tracked value once animate has run checkForNewValues)
EveryTargetHanded(n) ==
    DefinedKeysOf(last.c, last.definition) \subseteq HandedIn(n, last.c)

\* C17 as stated: every start() that is not deferred empties the isAnimating
\* sets of the controller and of its descendants, and hands every defined
\* target key of its definition to control() or sets it within the call
C17_FreshPassNeverSkipped ==
    \A n \in DOMAIN calls :
        FreshStart(n) => NothingLeftMarked(n) /\ EveryTargetHanded(n)

\* C17 for a definition the controller animates within the call: the
\* isAnimating sets of the controller and of its descendants hold no key of an
\* earlier pass when start() returns, and when no label of the definition has
\* the controller wait for its children every defined target key was handed
\* to control() or set in the call
C17_FreshPassNeverSkippedInCall ==
    \A n \in DOMAIN calls :
        FreshStart(n) =>
            /\ NothingLeftMarked(n)
            /\ AnimatesInCall(last.c, last.definition) => EveryTargetHanded(n)

\* a second start() on a parent animated x again, in the parent and in a
\* child, although the pass before it had marked x in both
C17_Witness ==
    \E n \in DOMAIN calls :
        /\ FreshStart(n)
        /\ last.c = Root /\ last.definition = LabelDef("dim")
        /\ n > 1 /\ calls[n - 1].definition = LabelDef("visible")
        /\ "x" \in HandedIn(n, Root) \cap HandedIn(n, KidA)
        /\ \E p \in DOMAIN promises :
              /\ promises[p].kind = "control" /\ promises[p].call = n - 1
              /\ promises[p].c = KidA /\ promises[p].key = "x"

(* C18: a child without a variant for a propagated label. *)

\* the propagations of the step to a child that has no variant for the label
VariantlessOfStep ==
    {e \in PropagatedOfStep : e.label \notin DOMAIN variants[e.c]}

\* what the child's animateVariant returned for a propagation
ReturnsOf(e) ==
    {g \in Effects : /\ g.op = "completion" /\ g.c = e.c
                     /\ g.label = e.label /\ g.call = e.call}
CompletionsOf(e) == {g.p : g \in ReturnsOf(e)}

\* the child's animateVariant left the values, the base target and the
\* isAnimating set of the child exactly as it found them
ChildUntouched(e) == \A g \in ReturnsOf(e) : g.own = e.own

\* the other children of the parent got the delay of their index among all
\* its registered children, the child without the variant counted
SiblingsKeepDelay(e) ==
    \A f \in PropagatedOfStep :
        (/\ f.call = e.call /\ f.label = e.label /\ f.c # e.c
         /\ ParentOf(f.c) = ParentOf(e.c))
            => f.delay = StaggeredDelay(ParentOf(e.c), f.label,
                                        IndexIn(ParentOf(e.c), f.c),
                                        Len(children[ParentOf(e.c)]))

\* the job that settles element i of the aggregate p is queued, or waits as a
\* reaction of the pending promise q
ElementQueued(p, i) == \E j \in DOMAIN queue : queue[j] = AllElemJob(p, i)
ElementWaitsFor(p, i, q) ==
    /\ promises[q].state = "pending"
    /\ \E j \in DOMAIN promises[q].reactions :
          promises[q].reactions[j] = AllElemJob(p, i)

\* what animateChildren returned for the propagation of the label to the
\* child's own children
OwnChildrenOf(e) ==
    {q \in Promises : /\ promises[q].tag.k = "animateChildren"
                      /\ promises[q].tag.c = e.c
                      /\ promises[q].tag.ctx = Ctx(e.call, e.label)}

\* the completion is the aggregate of two promises, pending when returned;
\* the first is resolved and its element job queued
AggregateOfTwo(p) ==
    /\ promises[p].kind = "all"
    /\ promises[p].state = "pending"
    /\ promises[p].remaining = 2
    /\ ElementQueued(p, 1)

\* the child has no child registry: the second promise is resolved too, so
\* promise jobs alone fulfil the completion
SettlesByJobsAlone(p) == AggregateOfTwo(p) /\ ElementQueued(p, 2)

\* the child has a child registry: the label went on to each of its children,
\* with the priority of the propagation and without delay, and the second
\* promise is the completion of those propagations, already fulfilled only
\* when the registry is empty
PassedOn(e) ==
    \A i \in DOMAIN children[e.c] :
        \E f \in PropagatedOfStep :
            /\ f.c = children[e.c][i] /\ f.call = e.call /\ f.label = e.label
            /\ f.priority = e.priority /\ f.delay = 0
WaitsForOwnChildren(e, p) ==
    /\ AggregateOfTwo(p)
    /\ PassedOn(e)
    /\ \E q \in OwnChildrenOf(e) :
          IF children[e.c] = <<>>
          THEN promises[q].state = "fulfilled" /\ ElementQueued(p, 2)
          ELSE ElementWaitsFor(p, 2, q)

\* the completion of a propagation that went through a child without the
\* variant is not fulfilled while an animation it started below that child is
\* unsettled (for a start() of one label, whose animations all stem from it)
OwnChildrenAwaited ==
    \A q \in Promises :
        (/\ promises[q].tag.k = "animateChildren"
         /\ promises[q].tag.c # calls[promises[q].tag.ctx.call].c
         /\ promises[q].tag.ctx.label \notin DOMAIN variants[promises[q].tag.c]
         /\ calls[promises[q].tag.ctx.call].definition.kind = "label"
         /\ promises[q].state = "fulfilled")
            => \A r \in ControlsOfCall(promises[q].tag.ctx.call) :
                  promises[r].c \in Descendants(promises[q].tag.c) \ {promises[q].tag.c}
                      => promises[r].state = "fulfilled"

\* C18 as stated: a child without a variant for a propagated label keeps its
\* values, base target and isAnimating entries, its completion is already
\* settled, and its siblings get the delays of their registration indices
C18_VariantlessChildIsNoOp ==
    \A e \in VariantlessOfStep :
        /\ ChildUntouched(e)
        /\ \A p \in CompletionsOf(e) : promises[p].state = "fulfilled"
        /\ SiblingsKeepDelay(e)

\* C18 with the completion as the code makes it: the child keeps its values,
\* base target and isAnimating entries; its completion is pending when
\* returned and is the aggregate of a resolved promise and of the completion
\* of its own children, which is a third resolved promise for a child without
\* a child registry and otherwise waits for the children the label is passed
\* on to; and its siblings get the delays of their registration indices
C18_VariantlessChildPassesOn ==
    /\ \A e \in VariantlessOfStep :
          /\ ChildUntouched(e)
          /\ CompletionsOf(e) # {}
          /\ \A p \in CompletionsOf(e) :
                IF hasChildren[e.c] THEN WaitsForOwnChildren(e, p)
                ELSE SettlesByJobsAlone(p)
          /\ SiblingsKeepDelay(e)
    /\ OwnChildrenAwaited

\* "hidden" reached the second child, which has no such variant and a child of
\* its own: the label went on to that child, whose x is now animating, while
\* the first child waits for the stagger of both
C18_Witness ==
    /\ \E e \in VariantlessOfStep :
          /\ e.c = KidB /\ e.label = "hidden"
          /\ children[KidB] = <<KidC>>
          /\ \E p \in CompletionsOf(e) : WaitsForOwnChildren(e, p)
    /\ \E f \in PropagatedOfStep : f.c = KidA /\ f.label = "hidden" /\ f.delay = 1
    /\ \E p \in DOMAIN promises :
          /\ promises[p].kind = "control" /\ promises[p].c = KidC
          /\ promises[p].key = "x" /\ promises[p].active

(* C19: in a list of labels the last label that targets a property wins. *)

\* the values the controller of a start() with a list of labels was handed or
\* set in this step for that call
ListEffectsOfStep ==
    {e \in Effects : /\ e.op \in {"control", "set"}
                     /\ e.call # NoCall
                     /\ calls[e.call].definition.kind = "labels"
                     /\ e.c = calls[e.call].c}

\* the animations of a key started for a call on its controller
ControlsOfKey(call, key) ==
    {p \in Promises : /\ promises[p].kind = "control"
                      /\ promises[p].call = call
                      /\ promises[p].c = calls[call].c
                      /\ promises[p].key = key}

\* C19: for start() with a list of labels, each property of the controller
\* is handed to control() or set at most once in the pass, and with the value of
\* the last label of the list that targets it, whatever the beforeChildren and
\* afterChildren flags of the variants and with or without registered children
C19_LastLabelWins ==
    \A e \in ListEffectsOfStep :
        /\ e.val = ResolvedValue(e.c, calls[e.call].definition, e.key)
        /\ Cardinality({f \in ListEffectsOfStep :
                            f.call = e.call /\ f.key = e.key}) = 1
        /\ Cardinality(ControlsOfKey(e.call, e.key)) <= 1

(* C20: the transitionEnd of an earlier start() and a later start(). *)

\* the start() calls made on the controller of call n after it that were not
\* deferred
LaterStarts(n) ==
    {k \in DOMAIN calls : k > n /\ calls[k].c = calls[n].c /\ ~calls[k].deferred}

\* the properties the later start() calls target
LaterTargeted(n) ==
    UNION {TargetKeysOf(calls[n].c, calls[k].definition) : k \in LaterStarts(n)}

\* the step leaves the value and the base target entry of a property alone
PropertyKept(c, key) ==
    /\ Entry(values'[c], key) = Entry(values[c], key)
    /\ Entry(baseTarget'[c], key) = Entry(baseTarget[c], key)

\* C20: once a later start() that is not deferred has begun on a controller,
\* the transitionEnd assignment of an earlier start(), made when its animations
\* settle afterwards, changes neither the value nor the base target entry of a
\* property the later start() targets
C20_SupersededPassDoesNotOverwrite ==
    [][\A t \in TransitionEndsOfStep' :
          (last'.op = "job" /\ t.c = calls[t.call].c)
              => \A key \in LaterTargeted(t.call) : PropertyKept(t.c, key)]_vars
====
